---- MODULE Spec2Model ----
(***************************************************************************)
(* Model of the live recording App (src/unnamed/part_003) and of           *)
(* LiveTranscriptionService (src/services/geminiService.ts).               *)
(*                                                                         *)
(* The App is a React function component: every handler is a closure over  *)
(* the state values of the render in which it was created.  Handlers that  *)
(* the user triggers (buttons) and the effects run with the values of the  *)
(* current render.  The continuation of an asynchronous startRecording and *)
(* the callbacks it hands to the service keep the values of the render in  *)
(* which the Record button was clicked: in particular the `stream` that    *)
(* their stopRecording sees is the one captured at the click (capStream).  *)
(* liveServiceRef is a ref and is always read at its current value.        *)
(***************************************************************************)
EXTENDS Integers, Sequences, FiniteSets, TLC

\* ---------------------------------------------------------------- bounds
\* Spec follows the recording lifecycle, with overlapping startRecording calls,
\* for the first ticks of the timer and with maxDuration left at its default.
MaxStarts == 2      \* Record clicks over the life of the page
MaxTime == 2        \* last value of recordingTime the timer is followed to
MaxText == 2        \* fragments appended to the transcript
\* SpecTimer follows the timer through a whole maximum duration, with the
\* settings modal and its slider.
MaxTimerStarts == 1 \* Record clicks over the life of the page
MaxTimerTime == 61  \* last value of recordingTime the timer is followed to
MaxTimerText == 1   \* fragments appended to the transcript
MaxSlider == 1      \* slider positions explored, counted from the minimum
\* SpecAudio follows the capture callback and the frames handed to the session.
MaxAudioStarts == 1 \* Record clicks over the life of the page
MaxAudioText == 1   \* fragments appended to the transcript
MaxFrames == 2      \* firings of onaudioprocess
\* SpecPure applies floatTo16BitPCM and transcribeAudio to one input each.
SampleDen == 65536     \* samples are the fractions num / SampleDen
MaxSampleNum == 131072 \* largest |num| of a sample given to floatTo16BitPCM

\* ------------------------------------------------------ program constants
DefaultMaxDuration == 300
SliderMin == 60
SliderMax == 600
SliderStep == 60
NegScale == 32768      \* 0x8000
PosScale == 32767      \* 0x7FFF
Int16Modulus == 65536  \* DataView.setInt16 keeps the low 16 bits

IDLE == "IDLE"
RECORDING == "RECORDING"
PAUSED == "PAUSED"
PROCESSING == "PROCESSING"
COMPLETED == "COMPLETED"
ERROR == "ERROR"

AppState == {IDLE, RECORDING, PAUSED, PROCESSING, COMPLETED, ERROR}

MsgNone == "null"
MsgCouldNotStart == "Could not start recording. Check permissions or connection."
MsgInterrupted == "Connection to Gemini interrupted."
MsgRaw == "<message of the error thrown by live.connect>"

MaxOf(S) == CHOOSE m \in S : \A n \in S : n <= m
Ids == 1..MaxOf({MaxStarts, MaxTimerStarts, MaxAudioStarts})
Chunks == {"a"}
\* What the user can leave in the textarea by typing.
EditValues == {<<>>, <<"u">>}
SliderValues ==
  {d \in SliderMin..SliderMax :
     /\ (d - SliderMin) % SliderStep = 0
     /\ d < SliderMin + MaxSlider * SliderStep}

VARIABLES
  appState,         \* useState<AppState>
  transcribedText,  \* useState<string>, as the sequence of its fragments
  errorMsg,         \* useState<string | null>
  stream,           \* useState<MediaStream | null>: 0 is null, else a stream id
  recordingTime,    \* useState(0)
  maxDuration,      \* useState<number>(300)
  showSettings,     \* useState(false)
  liveServiceRef,   \* useRef<LiveTranscriptionService | null>: 0 is null
  svc,              \* fields of each LiveTranscriptionService instance
  promise,          \* state of the promise returned by client.live.connect
  session,          \* state of the session that promise resolves to
  closeThen,        \* a then(session => session.close()) waits on a pending promise
  closeCount,       \* calls of session.close() made for each connection
  connects,         \* calls of client.live.connect made so far
  timerOn,          \* the interval timerIntervalRef points to has not been cleared
  strayTimers,      \* intervals still running that timerIntervalRef no longer points to
  captured,         \* firings of onaudioprocess so far
  sent,             \* the calls of session.sendRealtimeInput, in order
  call,             \* the pure function applied, its argument and its result
  tracks,           \* streams whose tracks have not been stopped
  pc,               \* position of each startRecording call
  capStream,        \* `stream` as captured by the closure of each call
  starts,           \* number of startRecording calls made so far
  apiKey,           \* process.env.API_KEY is set
  lastOp            \* the last event handled and the call or service it belongs to

vars == <<appState, transcribedText, errorMsg, stream, recordingTime,
          maxDuration, showSettings, liveServiceRef, svc, promise, session,
          closeThen, closeCount, connects, timerOn, strayTimers, captured,
          sent, call, tracks, pc, capStream, starts, apiKey, lastOp>>

Active == {PROCESSING, RECORDING, PAUSED}

\* startRecording calls that have not run to their end
InFlight == {k \in Ids : pc[k] \in {"gum", "connecting"}}

NewService ==
  [isProcessing |-> FALSE, audioContext |-> FALSE, sessionPromise |-> FALSE,
   processor |-> FALSE, source |-> FALSE]

\* The part of the state that the handlers read and write, as one value.
Cur ==
  [appState |-> appState, transcribedText |-> transcribedText,
   errorMsg |-> errorMsg, stream |-> stream, recordingTime |-> recordingTime,
   maxDuration |-> maxDuration, liveServiceRef |-> liveServiceRef,
   svc |-> svc, promise |-> promise, session |-> session,
   closeThen |-> closeThen, tracks |-> tracks, closeCount |-> closeCount,
   connects |-> connects, timerOn |-> timerOn, strayTimers |-> strayTimers,
   captured |-> captured, sent |-> sent, call |-> call]

Apply(r) ==
  /\ appState' = r.appState
  /\ transcribedText' = r.transcribedText
  /\ errorMsg' = r.errorMsg
  /\ stream' = r.stream
  /\ recordingTime' = r.recordingTime
  /\ maxDuration' = r.maxDuration
  /\ liveServiceRef' = r.liveServiceRef
  /\ svc' = r.svc
  /\ promise' = r.promise
  /\ session' = r.session
  /\ closeThen' = r.closeThen
  /\ tracks' = r.tracks
  /\ closeCount' = r.closeCount
  /\ connects' = r.connects
  /\ timerOn' = r.timerOn
  /\ strayTimers' = r.strayTimers
  /\ captured' = r.captured
  /\ sent' = r.sent
  /\ call' = r.call

\* ------------------------------------------------------- audioUtils
\* A sample of the Float32Array: NaN, or the fraction num / SampleDen.
Sample(n) == [nan |-> FALSE, num |-> n]
NaNSample == [nan |-> TRUE, num |-> 0]
Samples == {Sample(n) : n \in -MaxSampleNum..MaxSampleNum} \cup {NaNSample}

\* Math.min(1, x) and Math.max(-1, x); both give NaN for NaN.
MathMin1(x) ==
  IF ~x.nan /\ x.num > SampleDen THEN Sample(SampleDen) ELSE x

MathMaxNeg1(x) ==
  IF ~x.nan /\ x.num < -SampleDen THEN Sample(-SampleDen) ELSE x

\* <<q, r>> with a * k = q * d + r and 0 <= r < d, for a, k >= 0 and d > 0,
\* computed digit by digit of k so that no intermediate value exceeds 2d + a.
RECURSIVE MulDivMod(_, _, _)
MulDivMod(a, k, d) ==
  IF k = 0 THEN <<0, 0>>
  ELSE LET h == MulDivMod(a, k \div 2, d)
           r2 == 2 * h[2] + (IF k % 2 = 1 THEN a ELSE 0)
       IN <<2 * h[1] + (r2 \div d), r2 % d>>

\* The integer part, towards zero, of (num / SampleDen) * k: what ToInteger
\* keeps of the product s * k (exact in a double for a float32 s).
TruncMul(num, k) ==
  IF num < 0 THEN -(MulDivMod(-num, k, SampleDen)[1])
  ELSE MulDivMod(num, k, SampleDen)[1]

\* DataView.setInt16 of an integer: the value modulo 2^16, read as signed.
ToInt16(v) ==
  LET m == ((v % Int16Modulus) + Int16Modulus) % Int16Modulus
  IN IF 2 * m >= Int16Modulus THEN m - Int16Modulus ELSE m

\* floatTo16BitPCM without the clamp: the scaled sample goes to setInt16.
floatTo16BitPCMNoClamp(x) ==
  IF x.nan THEN 0
  ELSE ToInt16(IF x.num < 0 THEN TruncMul(x.num, NegScale)
               ELSE TruncMul(x.num, PosScale))

\* floatTo16BitPCM, for one element of the array: setInt16 of NaN stores 0.
floatTo16BitPCM(x) ==
  LET s == MathMaxNeg1(MathMin1(x))
  IN IF s.nan THEN 0
     ELSE ToInt16(IF s.num < 0 THEN TruncMul(s.num, NegScale)
                  ELSE TruncMul(s.num, PosScale))

\* ---------------------------------------------------- transcribeAudio
\* What generateContent gives: a rejection, or a response whose text getter
\* is undefined or a string.
Responses ==
  {[rejected |-> TRUE, text |-> "undefined"],
   [rejected |-> FALSE, text |-> "undefined"],
   [rejected |-> FALSE, text |-> ""],
   [rejected |-> FALSE, text |-> "[Unintelligible]"],
   [rejected |-> FALSE, text |-> "hello"]}

\* transcribeAudio: throws with no API key or on a rejection, and otherwise
\* returns response.text || "".
transcribeAudio(resp, key) ==
  IF ~key \/ resp.rejected THEN [threw |-> TRUE, text |-> ""]
  ELSE [threw |-> FALSE,
        text |-> IF resp.text \in {"undefined", ""} THEN "" ELSE resp.text]

\* ------------------------------------------- LiveTranscriptionService
\* stop(): the session is closed by a then() on the connection promise, which
\* runs at once when the promise is resolved and waits while it is pending.
\* LiveStop without `this.sessionPromise = null`: a second stop closes again.
LiveStopKeepsPromise(r, k) ==
  LET had == r.svc[k].sessionPromise
  IN [r EXCEPT
        !.svc[k] = [NewService EXCEPT !.sessionPromise = had],
        !.session[k] = IF had /\ r.promise[k] = "resolved" /\ @ = "open"
                       THEN "closed" ELSE @,
        !.closeCount[k] = IF had /\ r.promise[k] = "resolved" THEN @ + 1 ELSE @,
        !.closeThen[k] = IF had /\ r.promise[k] = "pending" THEN TRUE ELSE @]

LiveStop(r, k) ==
  LET had == r.svc[k].sessionPromise
  IN [r EXCEPT
        !.svc[k] = NewService,
        !.session[k] = IF had /\ r.promise[k] = "resolved" /\ @ = "open"
                       THEN "closed" ELSE @,
        !.closeCount[k] = IF had /\ r.promise[k] = "resolved" THEN @ + 1 ELSE @,
        !.closeThen[k] = IF had /\ r.promise[k] = "pending" THEN TRUE ELSE @]

LivePause(r, k) == [r EXCEPT !.svc[k].isProcessing = FALSE]

LiveResume(r, k) == [r EXCEPT !.svc[k].isProcessing = TRUE]

\* start() up to its await: the audio context and the connection request.
LiveStartBegin(r, k) ==
  [r EXCEPT !.svc[k].audioContext = TRUE,
            !.svc[k].sessionPromise = TRUE,
            !.promise[k] = "pending",
            !.connects = @ + 1]

\* onopen -> startAudioProcessing
startAudioProcessing(r, k) ==
  IF ~r.svc[k].audioContext \/ ~r.svc[k].sessionPromise THEN r
  ELSE [r EXCEPT !.svc[k].source = TRUE, !.svc[k].processor = TRUE]

\* A frame handed to session.sendRealtimeInput: the service, the number of the
\* capture it comes from, and whether the session was open at the call.
Frame(r, k) ==
  [svc |-> k, frame |-> r.captured + 1, open |-> r.session[k] = "open"]

\* onaudioprocess without its `if (!this.isProcessing) return`.
onaudioprocessNoGuard(r, k) ==
  IF r.svc[k].sessionPromise
  THEN [r EXCEPT !.captured = @ + 1, !.sent = Append(@, Frame(r, k))]
  ELSE [r EXCEPT !.captured = @ + 1]

\* processor.onaudioprocess: the then() on the resolved sessionPromise runs
\* right after the callback, in the order the callbacks were registered.
onaudioprocess(r, k) ==
  IF r.svc[k].isProcessing /\ r.svc[k].sessionPromise
  THEN [r EXCEPT !.captured = @ + 1, !.sent = Append(@, Frame(r, k))]
  ELSE [r EXCEPT !.captured = @ + 1]

\* ------------------------------------------------------- App handlers
StopTracks(r, strm) ==
  IF strm # 0 THEN [r EXCEPT !.tracks = @ \ {strm}, !.stream = 0] ELSE r

StopService(r) ==
  IF r.liveServiceRef # 0
  THEN [LiveStop(r, r.liveServiceRef) EXCEPT !.liveServiceRef = 0]
  ELSE r

\* strm is the `stream` of the closure stopRecording belongs to.
stopRecording(r, strm) ==
  [StopTracks(StopService(r), strm) EXCEPT !.appState = COMPLETED]

handleReset(r) ==
  StopService([r EXCEPT !.appState = IDLE, !.transcribedText = <<>>,
                        !.errorMsg = MsgNone, !.recordingTime = 0])

cancelRecording(r, strm) ==
  handleReset(StopTracks(StopService(r), strm))

pauseRecording(r) ==
  IF r.liveServiceRef # 0
  THEN [LivePause(r, r.liveServiceRef) EXCEPT !.appState = PAUSED]
  ELSE r

resumeRecording(r) ==
  IF r.liveServiceRef # 0
  THEN [LiveResume(r, r.liveServiceRef) EXCEPT !.appState = RECORDING]
  ELSE r

\* onErrorCallback that asks for a new connection after reporting the error.
onErrorCallbackRetries(r, k, msg) ==
  [stopRecording([r EXCEPT !.errorMsg = msg], capStream[k])
     EXCEPT !.appState = ERROR, !.connects = @ + 1]

\* The onError callback startRecording passes to service.start.
onErrorCallback(r, k, msg) ==
  [stopRecording([r EXCEPT !.errorMsg = msg], capStream[k])
     EXCEPT !.appState = ERROR]

\* startCatch that asks for a connection after reporting the failure.
startCatchRetries(r, k) ==
  LiveStartBegin(
    StopTracks([r EXCEPT !.errorMsg = MsgCouldNotStart, !.appState = ERROR],
               capStream[k]), k)

\* The catch block of startRecording.
startCatch(r, k) ==
  StopTracks([r EXCEPT !.errorMsg = MsgCouldNotStart, !.appState = ERROR],
             capStream[k])

\* autoStopEffect with the comparison made strict: stops one tick late.
autoStopEffectLate(r) ==
  IF r.appState = RECORDING /\ r.recordingTime > r.maxDuration
  THEN stopRecording(r, r.stream)
  ELSE r

\* The auto-stop effect, run after the render that follows every event.
autoStopEffect(r) ==
  IF r.appState = RECORDING /\ r.recordingTime >= r.maxDuration
  THEN stopRecording(r, r.stream)
  ELSE r

\* timerEffect without the cleanup function the effect returns.
timerEffectNoCleanup(prev, r) ==
  IF r.appState = prev THEN r
  ELSE IF r.appState = RECORDING
       THEN [r EXCEPT !.strayTimers = IF r.timerOn THEN @ + 1 ELSE @,
                      !.timerOn = TRUE]
       ELSE IF r.appState = PAUSED THEN [r EXCEPT !.timerOn = FALSE]
       ELSE IF r.appState = IDLE
            THEN [r EXCEPT !.recordingTime = 0, !.timerOn = FALSE]
            ELSE r

\* The timer effect, run when appState differs from that of the last render
\* (prev): first the cleanup of the previous run, which clears the interval
\* timerIntervalRef points to, then the body for the new appState.
timerEffect(prev, r) ==
  IF r.appState = prev THEN r
  ELSE LET c == [r EXCEPT !.timerOn = FALSE]
       IN IF c.appState = RECORDING
          THEN [c EXCEPT !.strayTimers = IF c.timerOn THEN @ + 1 ELSE @,
                         !.timerOn = TRUE]
          ELSE IF c.appState = PAUSED THEN [c EXCEPT !.timerOn = FALSE]
          ELSE IF c.appState = IDLE
               THEN [c EXCEPT !.recordingTime = 0, !.timerOn = FALSE]
               ELSE c

\* The render that follows an event and the effects it runs; a state change
\* made by the auto-stop effect is rendered in turn.
Render(r) ==
  LET r1 == timerEffect(appState, r)
      r2 == autoStopEffect(r1)
  IN Apply(timerEffect(r1.appState, r2))

\* ------------------------------------------------------------- Init
Init ==
  /\ appState = IDLE
  /\ transcribedText = <<>>
  /\ errorMsg = MsgNone
  /\ stream = 0
  /\ recordingTime = 0
  /\ maxDuration = DefaultMaxDuration
  /\ showSettings = FALSE
  /\ liveServiceRef = 0
  /\ svc = [k \in Ids |-> NewService]
  /\ promise = [k \in Ids |-> "none"]
  /\ session = [k \in Ids |-> "none"]
  /\ closeThen = [k \in Ids |-> FALSE]
  /\ closeCount = [k \in Ids |-> 0]
  /\ connects = 0
  /\ timerOn = FALSE
  /\ strayTimers = 0
  /\ captured = 0
  /\ sent = <<>>
  /\ call = [fn |-> "none"]
  /\ tracks = {}
  /\ pc = [k \in Ids |-> "unused"]
  /\ capStream = [k \in Ids |-> 0]
  /\ starts = 0
  /\ apiKey \in BOOLEAN
  /\ lastOp = [op |-> "Init", id |-> 0]

\* ------------------------------------------------------------ actions
\* Record button: startRecording up to the await of getUserMedia.
StartClick(maxStarts) ==
  /\ appState \in {IDLE, COMPLETED, ERROR}
  /\ starts < maxStarts
  /\ starts' = starts + 1
  /\ pc' = [pc EXCEPT ![starts + 1] = "gum"]
  /\ capStream' = [capStream EXCEPT ![starts + 1] = stream]
  /\ Render([Cur EXCEPT !.errorMsg = MsgNone, !.transcribedText = <<>>])
  /\ lastOp' = [op |-> "StartClick", id |-> 0]
  /\ UNCHANGED <<showSettings, apiKey>>

\* getUserMedia resolves: startRecording runs on to the await of service.start.
GumOk(k) ==
  /\ pc[k] = "gum"
  /\ LET r1 == [Cur EXCEPT !.stream = k, !.tracks = @ \cup {k}]
     IN IF ~apiKey
        THEN /\ Render(startCatch(r1, k))
             /\ pc' = [pc EXCEPT ![k] = "done"]
        ELSE /\ Render(LiveStartBegin(
                  [r1 EXCEPT !.liveServiceRef = k, !.appState = PROCESSING], k))
             /\ pc' = [pc EXCEPT ![k] = "connecting"]
  /\ lastOp' = [op |-> "GumOk", id |-> k]
  /\ UNCHANGED <<showSettings, capStream, starts, apiKey>>

\* getUserMedia rejects.
GumFail(k) ==
  /\ pc[k] = "gum"
  /\ Render(startCatch(Cur, k))
  /\ pc' = [pc EXCEPT ![k] = "done"]
  /\ lastOp' = [op |-> "GumFail", id |-> k]
  /\ UNCHANGED <<showSettings, capStream, starts, apiKey>>

\* The connection is acknowledged: onopen, then start() and startRecording
\* run to their ends, then a close queued by stop() runs.
ConnectAck(k) ==
  /\ pc[k] = "connecting"
  /\ promise[k] = "pending"
  /\ LET r1 == [Cur EXCEPT !.promise[k] = "resolved", !.session[k] = "open"]
         r2 == startAudioProcessing(r1, k)
         r3 == [r2 EXCEPT !.svc[k].isProcessing = TRUE, !.appState = RECORDING]
         r4 == IF r3.closeThen[k]
               THEN [r3 EXCEPT !.session[k] = "closed", !.closeThen[k] = FALSE,
                               !.closeCount[k] = @ + 1]
               ELSE r3
     IN Render(r4)
  /\ pc' = [pc EXCEPT ![k] = "done"]
  /\ lastOp' = [op |-> "ConnectAck", id |-> k]
  /\ UNCHANGED <<showSettings, capStream, starts, apiKey>>

\* The connection request fails: start() catches and calls onError, returns,
\* and startRecording runs to its end.
ConnectFail(k) ==
  /\ pc[k] = "connecting"
  /\ promise[k] = "pending"
  /\ LET r1 == [Cur EXCEPT !.promise[k] = "rejected", !.closeThen[k] = FALSE]
         r2 == onErrorCallback(r1, k, MsgRaw)
         r3 == [r2 EXCEPT !.appState = RECORDING]
     IN Render(r3)
  /\ pc' = [pc EXCEPT ![k] = "done"]
  /\ lastOp' = [op |-> "ConnectFail", id |-> k]
  /\ UNCHANGED <<showSettings, capStream, starts, apiKey>>

\* onerror of an open session.
SessionError(k) ==
  /\ session[k] = "open"
  /\ Render(onErrorCallback(Cur, k, MsgInterrupted))
  /\ lastOp' = [op |-> "SessionError", id |-> k]
  /\ UNCHANGED <<showSettings, pc, capStream, starts, apiKey>>

\* onmessage of an open session carrying an input transcription.
OnMessage(k, c, maxText) ==
  /\ session[k] = "open"
  /\ Len(transcribedText) < maxText
  /\ Render([Cur EXCEPT !.transcribedText = Append(@, c)])
  /\ lastOp' = [op |-> "OnMessage", id |-> k]
  /\ UNCHANGED <<showSettings, pc, capStream, starts, apiKey>>

PauseClick ==
  /\ appState = RECORDING
  /\ Render(pauseRecording(Cur))
  /\ lastOp' = [op |-> "PauseClick", id |-> 0]
  /\ UNCHANGED <<showSettings, pc, capStream, starts, apiKey>>

ResumeClick ==
  /\ appState = PAUSED
  /\ Render(resumeRecording(Cur))
  /\ lastOp' = [op |-> "ResumeClick", id |-> 0]
  /\ UNCHANGED <<showSettings, pc, capStream, starts, apiKey>>

StopClick ==
  /\ appState \in Active
  /\ Render(stopRecording(Cur, stream))
  /\ lastOp' = [op |-> "StopClick", id |-> 0]
  /\ UNCHANGED <<showSettings, pc, capStream, starts, apiKey>>

CancelClick ==
  /\ appState \in Active
  /\ Render(cancelRecording(Cur, stream))
  /\ lastOp' = [op |-> "CancelClick", id |-> 0]
  /\ UNCHANGED <<showSettings, pc, capStream, starts, apiKey>>

\* Clear button, rendered whenever the transcript is not empty.
ClearClick ==
  /\ transcribedText # <<>>
  /\ Render(handleReset(Cur))
  /\ lastOp' = [op |-> "ClearClick", id |-> 0]
  /\ UNCHANGED <<showSettings, pc, capStream, starts, apiKey>>

\* One firing of an interval the timer effect installed and nothing cleared.
Tick(limit) ==
  /\ timerOn \/ strayTimers > 0
  /\ recordingTime < limit
  /\ Render([Cur EXCEPT !.recordingTime = @ + 1])
  /\ lastOp' = [op |-> "Tick", id |-> 0]
  /\ UNCHANGED <<showSettings, pc, capStream, starts, apiKey>>

OpenSettings ==
  /\ appState \notin {RECORDING, PAUSED}
  /\ ~showSettings
  /\ showSettings' = TRUE
  /\ lastOp' = [op |-> "OpenSettings", id |-> 0]
  /\ UNCHANGED <<appState, transcribedText, errorMsg, stream, recordingTime,
                 maxDuration, liveServiceRef, svc, promise, session, closeThen,
                 closeCount, connects, timerOn, strayTimers, captured, sent,
                 call, tracks, pc, capStream, starts, apiKey>>

CloseSettings ==
  /\ showSettings
  /\ showSettings' = FALSE
  /\ lastOp' = [op |-> "CloseSettings", id |-> 0]
  /\ UNCHANGED <<appState, transcribedText, errorMsg, stream, recordingTime,
                 maxDuration, liveServiceRef, svc, promise, session, closeThen,
                 closeCount, connects, timerOn, strayTimers, captured, sent,
                 call, tracks, pc, capStream, starts, apiKey>>

\* The slider of the settings modal.
SetMaxDuration(d) ==
  /\ showSettings
  /\ d # maxDuration
  /\ Render([Cur EXCEPT !.maxDuration = d])
  /\ lastOp' = [op |-> "SetMaxDuration", id |-> 0]
  /\ UNCHANGED <<showSettings, pc, capStream, starts, apiKey>>

\* The remote service closes the session: onclose only logs.
RemoteClose(k) ==
  /\ session[k] = "open"
  /\ Render([Cur EXCEPT !.session[k] = "closed"])
  /\ lastOp' = [op |-> "RemoteClose", id |-> k]
  /\ UNCHANGED <<showSettings, pc, capStream, starts, apiKey>>

\* The user types in the textarea, which is rendered in RECORDING, PAUSED and
\* COMPLETED or when the transcript is not empty, and is readOnly in RECORDING
\* and PROCESSING.
EditText(t) ==
  /\ appState \in {RECORDING, PAUSED, COMPLETED} \/ transcribedText # <<>>
  /\ appState \notin {RECORDING, PROCESSING}
  /\ t # transcribedText
  /\ Render([Cur EXCEPT !.transcribedText = t])
  /\ lastOp' = [op |-> "EditText", id |-> 0]
  /\ UNCHANGED <<showSettings, pc, capStream, starts, apiKey>>

\* The script processor of service k, connected by startAudioProcessing and
\* disconnected by stop(), fires onaudioprocess.
AudioProcess(k, maxFrames) ==
  /\ svc[k].processor
  /\ captured < maxFrames
  /\ Apply(onaudioprocess(Cur, k))
  /\ lastOp' = [op |-> "AudioProcess", id |-> k]
  /\ UNCHANGED <<showSettings, pc, capStream, starts, apiKey>>

Events ==
  \/ \E k \in Ids : GumOk(k)
  \/ \E k \in Ids : GumFail(k)
  \/ \E k \in Ids : ConnectAck(k)
  \/ \E k \in Ids : ConnectFail(k)
  \/ \E k \in Ids : SessionError(k)
  \/ PauseClick
  \/ ResumeClick
  \/ StopClick
  \/ CancelClick
  \/ ClearClick

\* The textarea and the remote end of the session.
TextAndRemoteEvents ==
  \/ \E t \in EditValues : EditText(t)
  \/ \E k \in Ids : RemoteClose(k)

SettingsEvents ==
  \/ OpenSettings
  \/ CloseSettings
  \/ \E d \in SliderValues : SetMaxDuration(d)

\* The recording lifecycle: every handler and callback but the settings modal.
Next ==
  \/ StartClick(MaxStarts)
  \/ Tick(MaxTime)
  \/ \E k \in Ids, c \in Chunks : OnMessage(k, c, MaxText)
  \/ Events
  \/ TextAndRemoteEvents

Spec == Init /\ [][Next]_vars

\* The whole App, with the settings modal.
NextTimer ==
  \/ StartClick(MaxTimerStarts)
  \/ Tick(MaxTimerTime)
  \/ \E k \in Ids, c \in Chunks : OnMessage(k, c, MaxTimerText)
  \/ Events
  \/ SettingsEvents

SpecTimer == Init /\ [][NextTimer]_vars

\* The recording lifecycle with the audio capture callback and the textarea.
NextAudio ==
  \/ StartClick(MaxAudioStarts)
  \/ \E k \in Ids, c \in Chunks : OnMessage(k, c, MaxAudioText)
  \/ \E k \in Ids : AudioProcess(k, MaxFrames)
  \/ Events
  \/ TextAndRemoteEvents

SpecAudio == Init /\ [][NextAudio]_vars

\* One element of the array given to floatTo16BitPCM is converted.
Convert(x) ==
  /\ call.fn = "none"
  /\ Apply([Cur EXCEPT !.call = [fn |-> "floatTo16BitPCM", arg |-> x,
                                 res |-> floatTo16BitPCM(x)]])
  /\ lastOp' = [op |-> "Convert", id |-> 0]
  /\ UNCHANGED <<showSettings, pc, capStream, starts, apiKey>>

\* transcribeAudio is called and generateContent settles.
Transcribe(resp) ==
  /\ call.fn = "none"
  /\ Apply([Cur EXCEPT !.call = [fn |-> "transcribeAudio", arg |-> resp,
                                 res |-> transcribeAudio(resp, apiKey)]])
  /\ lastOp' = [op |-> "Transcribe", id |-> 0]
  /\ UNCHANGED <<showSettings, pc, capStream, starts, apiKey>>

\* The pure functions, each applied once to one input.
NextPure ==
  /\ call.fn = "none"
  /\ \/ \E x \in Samples : Convert(x)
     \/ \E resp \in Responses : Transcribe(resp)

SpecPure == Init /\ [][NextPure]_vars

\* ------------------------------------------------------------- claims

\* C1: in every reachable state the microphone is held (some acquired stream
\* has tracks that were not stopped) exactly when appState is Processing,
\* Recording or Paused.
C1_MicHeldIffActive == (tracks # {}) <=> (appState \in Active)

\* C2: when the connection attempt fails while appState is Processing, then
\* after startRecording has handled it the state is Error, the microphone is
\* released and an error reason is recorded.
C2_ConnectFailGivesError ==
  [][(appState = PROCESSING /\ lastOp'.op = "ConnectFail")
       => (appState' = ERROR /\ tracks' = {} /\ errorMsg' # MsgNone)]_vars

\* C3: cancelRecording in Processing, Recording or Paused leaves the microphone
\* released, appState Idle and the transcript empty.
C3_CancelReleasesAndIdles ==
  [][(appState \in Active /\ lastOp'.op = "CancelClick")
       => (appState' = IDLE /\ tracks' = {} /\ transcribedText' = <<>>)]_vars

\* C4: there are never two startRecording calls in progress at once, two held
\* microphone streams, or two sessions that are connecting or open.
C4_NoDoubleStart ==
  /\ Cardinality(InFlight) <= 1
  /\ Cardinality(tracks) <= 1
  /\ Cardinality({k \in Ids : promise[k] = "pending" \/ session[k] = "open"}) <= 1

\* C5: an onerror of an open session, in any recording state, gives Error with
\* that session closed, the microphone released and the reason recorded.
C5_SessionErrorCleansUp ==
  [][(appState \in Active /\ lastOp'.op = "SessionError")
       => (/\ appState' = ERROR
           /\ session'[lastOp'.id] = "closed"
           /\ tracks' = {}
           /\ errorMsg' = MsgInterrupted)]_vars

\* C6: appState becomes Recording only from Processing when the connection is
\* acknowledged, or from Paused on resume.
C6_RecordingEntry ==
  [][(appState # RECORDING /\ appState' = RECORDING)
       => (\/ appState = PROCESSING /\ lastOp'.op = "ConnectAck"
           \/ appState = PAUSED /\ lastOp'.op = "ResumeClick")]_vars

\* C7: whenever appState is Processing, Recording or Paused, liveServiceRef
\* holds a service and that service has not been stopped.
C7_OneServiceWhileActive ==
  appState \in Active
    => (liveServiceRef # 0 /\ svc[liveServiceRef].sessionPromise)

\* C8: with maxDuration = 60 a tick in Recording leaves the state Recording
\* while the counter is below 60 and gives Completed when it reaches 60; the
\* state is never Recording with the counter at 60 or more, and a recording
\* ends by itself only with the counter at 60 or more.
C8_AutoStopAtSixty ==
  [][(maxDuration = 60 /\ maxDuration' = 60)
       => (/\ (appState = RECORDING /\ lastOp'.op = "Tick")
                => (/\ recordingTime' = recordingTime + 1
                    /\ (recordingTime' < 60 => appState' = RECORDING)
                    /\ (recordingTime' >= 60
                          => appState' = COMPLETED /\ recordingTime' = 60))
           /\ (appState' = RECORDING => recordingTime' < 60)
           /\ (appState = RECORDING /\ appState' = COMPLETED
                 /\ lastOp'.op # "StopClick"
                 => recordingTime' >= 60))]_vars

\* C8 witness: a recording with maxDuration = 60 was ended by the tick that
\* took the counter to 60.
C8_Witness ==
  /\ lastOp.op = "Tick"
  /\ appState = COMPLETED
  /\ recordingTime = 60
  /\ maxDuration = 60

\* C9: maxDuration does not change while appState is Processing, Recording or
\* Paused.
C9_MaxDurationFixed ==
  [][(appState \in Active => maxDuration' = maxDuration)]_vars

\* C10: when cancelRecording returns, the stream it held is released and the
\* session of the service it held is closed: the connection is neither still
\* pending nor open.
C10_CancelSynchronous ==
  [][(appState \in Active /\ lastOp'.op = "CancelClick" /\ liveServiceRef # 0)
       => (/\ stream \notin tracks'
           /\ promise'[liveServiceRef] # "pending"
           /\ session'[liveServiceRef] # "open")]_vars

\* C11: when the remote service closes the session of the App's service while
\* appState is Processing, Recording or Paused, appState leaves these states,
\* and no later capture callback sends a frame on a session that is closed.
C11_RemoteCloseIsTerminal ==
  [][/\ (/\ appState \in Active
         /\ lastOp'.op = "RemoteClose"
         /\ lastOp'.id = liveServiceRef) => appState' \notin Active
     /\ (lastOp'.op = "AudioProcess" /\ session[lastOp'.id] = "closed")
          => sent' = sent]_vars

\* C12: every call of sendRealtimeInput is made on a session that is open.
C12_SendOnlyWhenOpen == \A i \in 1..Len(sent) : sent[i].open

\* The frame numbers of the calls of sendRealtimeInput increase strictly: no
\* captured frame is sent twice or after a frame captured later.
SentInCaptureOrder ==
  \A i \in 1..Len(sent) :
    /\ sent[i].frame \in 1..captured
    /\ \A j \in 1..Len(sent) : i < j => sent[i].frame < sent[j].frame

\* C13: a capture callback sends its frame, as the last one so far, exactly when
\* forwarding is active (isProcessing) in its service, and otherwise sends
\* nothing; no other step sends a frame, so what was captured while paused is
\* never sent later; the frames sent are in capture order, each once; and
\* pause followed at once by resume leaves the frames sent, the captures and
\* the forwarding service as they were.
C13_FramesSentAsCaptured ==
  [][/\ lastOp'.op = "AudioProcess"
          => /\ captured' = captured + 1
             /\ sent' = IF svc[lastOp'.id].isProcessing
                        THEN Append(sent, [svc |-> lastOp'.id,
                                           frame |-> captured',
                                           open |-> session[lastOp'.id] = "open"])
                        ELSE sent
     /\ lastOp'.op # "AudioProcess" => (sent' = sent /\ captured' = captured)
     /\ SentInCaptureOrder'
     /\ (/\ appState = RECORDING
         /\ liveServiceRef # 0
         /\ svc[liveServiceRef].isProcessing)
          => LET p == pauseRecording(Cur)
                 r == resumeRecording(p)
             IN /\ p.appState = PAUSED
                /\ ~p.svc[liveServiceRef].isProcessing
                /\ r.sent = sent
                /\ r.captured = captured
                /\ r.svc = svc
                /\ r.appState = RECORDING]_vars

\* A frame captured while paused was dropped and the frame captured after the
\* resume was sent.
C13_Witness ==
  /\ lastOp.op = "AudioProcess"
  /\ captured = 2
  /\ Len(sent) = 1
  /\ sent[1].frame = 2
  /\ appState = RECORDING

\* C14: the transcript is empty when appState enters Processing, Recording or
\* Paused, every fragment delivered while in these states is appended as it
\* is, and no other step that stays in these states changes the transcript: it
\* is the concatenation of the fragments received since the start.
C14_TranscriptIsFragments ==
  [][(/\ (appState \notin Active /\ appState' \in Active)
           => transcribedText' = <<>>
      /\ (appState' \in Active /\ lastOp'.op = "OnMessage")
           => (\E c \in Chunks : transcribedText' = Append(transcribedText, c))
      /\ (appState \in Active /\ appState' \in Active /\ lastOp'.op # "OnMessage")
           => transcribedText' = transcribedText)]_vars

\* C15: a fragment that arrives while appState is not Processing, Recording or
\* Paused leaves the transcript as it is.
C15_NoWriteAfterEnd ==
  [][(appState \notin Active /\ lastOp'.op = "OnMessage")
       => transcribedText' = transcribedText]_vars

\* C16: while appState is Processing, Recording or Paused the user neither
\* edits nor clears the transcript, and the transcript changes only by a
\* delivered fragment being appended (or by cancelRecording emptying it).
C16_OnlyDeltasWhileActive ==
  [][(appState \in Active
        => /\ lastOp'.op \notin {"EditText", "ClearClick"}
           /\ transcribedText' # transcribedText
                => \/ lastOp'.op = "CancelClick"
                   \/ /\ lastOp'.op = "OnMessage"
                      /\ \E c \in Chunks :
                           transcribedText' = Append(transcribedText, c))]_vars

\* The intervals installed by the timer effect that nothing has cleared.
TimerCount == (IF timerOn THEN 1 ELSE 0) + strayTimers

\* C17: recordingTime increases only by a timer tick taken while appState is
\* Recording, and then by exactly one; no tick fires in any other state; and
\* at most one interval is live, and only while appState is Recording.
C17_TimerOnlyWhileRecording ==
  [][(/\ recordingTime' > recordingTime
           => /\ appState = RECORDING
              /\ lastOp'.op = "Tick"
              /\ recordingTime' = recordingTime + 1
      /\ lastOp'.op = "Tick"
           => (appState = RECORDING /\ recordingTime' = recordingTime + 1)
      /\ TimerCount' <= 1
      /\ TimerCount' > 0 => appState' = RECORDING)]_vars

\* The timer has ticked twice and the recording goes on with one interval.
C17_Witness ==
  /\ lastOp.op = "Tick"
  /\ appState = RECORDING
  /\ recordingTime = 2
  /\ TimerCount = 1

\* C18: a Pause click in Recording gives Paused with isProcessing false in the
\* App's service and its session left as it was; a Resume click in Paused
\* gives Recording with isProcessing true; and in every state appState is
\* Recording exactly when the App holds a service whose isProcessing is true.
C18_ForwardingInStep ==
  [][(/\ (appState = RECORDING /\ lastOp'.op = "PauseClick")
           => /\ appState' = PAUSED
              /\ liveServiceRef' # 0
              /\ ~svc'[liveServiceRef'].isProcessing
              /\ session' = session
      /\ (appState = PAUSED /\ lastOp'.op = "ResumeClick")
           => /\ appState' = RECORDING
              /\ liveServiceRef' # 0
              /\ svc'[liveServiceRef'].isProcessing
      /\ (appState' = RECORDING)
           <=> (liveServiceRef' # 0 /\ svc'[liveServiceRef'].isProcessing))]_vars

\* C19: in every reachable state a second LiveTranscriptionService.stop of any
\* service changes nothing the first one left, and no connection has had
\* session.close() called on it more than once.
C19_CloseIdempotent ==
  \A k \in Ids :
    /\ LiveStop(LiveStop(Cur, k), k) = LiveStop(Cur, k)
    /\ closeCount[k] <= 1
    /\ closeCount[k] = 1 => (session[k] = "closed" /\ ~svc[k].sessionPromise)

\* Stop closed the session of the recording and a later Clear (handleReset)
\* ran: close was called once.
C19_Witness ==
  /\ lastOp.op = "ClearClick"
  /\ closeCount[1] = 1
  /\ session[1] = "closed"
  /\ appState = IDLE

\* C20: client.live.connect is called only by the continuation of a
\* startRecording call, once for each, so the number of connection requests
\* never exceeds the number of Record clicks; no failure or error callback
\* issues one.
C20_NoReconnect ==
  [][(/\ connects' <= starts'
      /\ connects' # connects
           => (lastOp'.op = "GumOk" /\ connects' = connects + 1)
      /\ lastOp'.op \in {"ConnectFail", "SessionError", "RemoteClose", "GumFail"}
           => connects' = connects)]_vars

\* An open session reported an error after the only connection request.
C20_Witness ==
  /\ lastOp.op = "SessionError"
  /\ appState = ERROR
  /\ starts = 1
  /\ connects = 1

\* C21: with no API key no start ever acquires a microphone stream or issues a
\* connection request.
C21_NoKeyNoDevice ==
  ~apiKey => (tracks = {} /\ stream = 0 /\ connects = 0)

\* C22: when getUserMedia is refused, startRecording ends in Error with the
\* reason recorded, and that start has no session and no connection request,
\* then and ever after.
C22_MicRefused ==
  [][(/\ lastOp'.op = "GumFail"
           => /\ appState' = ERROR
              /\ errorMsg' = MsgCouldNotStart
              /\ connects' = connects
              /\ pc'[lastOp'.id] = "done"
              /\ promise'[lastOp'.id] = "none"
              /\ session'[lastOp'.id] = "none"
              /\ svc'[lastOp'.id] = NewService
      /\ \A k \in Ids :
           (pc[k] = "done" /\ promise[k] = "none")
             => (pc'[k] = "done" /\ promise'[k] = "none"))]_vars

\* The only start was refused the microphone: Error, nothing requested.
C22_Witness ==
  /\ lastOp.op = "GumFail"
  /\ appState = ERROR
  /\ errorMsg = MsgCouldNotStart
  /\ starts = 1
  /\ connects = 0
  /\ tracks = {}

\* C23: a recorded error reason is kept by every step other than a Record
\* click and a reset (Clear, or the handleReset that ends cancelRecording).
C23_ErrorKept ==
  [][((errorMsg # MsgNone
        /\ lastOp'.op \notin {"StartClick", "ClearClick", "CancelClick"})
       => errorMsg' = errorMsg)]_vars

\* C24: the reason recorded by the onError callback is always one of the fixed
\* reasons, never the message of the exception the transport raised.
C24_NoRawException ==
  errorMsg \in {MsgNone, MsgCouldNotStart, MsgInterrupted}

\* C28: a Stop click in Recording or Paused gives Completed with no session
\* left open or connecting, no live microphone track, liveServiceRef null and
\* the transcript as it was.
C28_StopCompletes ==
  [][((appState \in {RECORDING, PAUSED} /\ lastOp'.op = "StopClick")
       => /\ appState' = COMPLETED
          /\ \A k \in Ids : session'[k] # "open" /\ promise'[k] # "pending"
          /\ tracks' = {}
          /\ stream' = 0
          /\ liveServiceRef' = 0
          /\ transcribedText' = transcribedText)]_vars

\* C29: when getUserMedia grants the microphone to a start and the API key is
\* present, the state becomes Processing with the transcript empty and no
\* error reason, the stream of that start is the one stream acquired and one
\* connection request is issued.
C29_StartGivesProcessing ==
  [][((lastOp'.op = "GumOk" /\ apiKey)
       => /\ appState' = PROCESSING
          /\ transcribedText' = <<>>
          /\ errorMsg' = MsgNone
          /\ tracks' = tracks \cup {lastOp'.id}
          /\ lastOp'.id \notin tracks
          /\ stream' = lastOp'.id
          /\ connects' = connects + 1
          /\ promise'[lastOp'.id] = "pending")]_vars

\* C30: the Clear button (handleReset) acts only in Completed and Error, and
\* gives Idle with the transcript empty, no error reason and the counter 0.
C30_ResetFromTerminal ==
  [][(lastOp'.op = "ClearClick"
       => /\ appState \in {COMPLETED, ERROR}
          /\ appState' = IDLE
          /\ transcribedText' = <<>>
          /\ errorMsg' = MsgNone
          /\ recordingTime' = 0)]_vars

\* C25: the value floatTo16BitPCM stores for a sample lies in -32768..32767;
\* it is 32767 for every sample >= 1 and -32768 for every sample <= -1, so a
\* sample out of range never wraps around; a negative sample in range gives
\* the integer part of the sample times 32768 and a non-negative one the
\* integer part of the sample times 32767.
C25_ClampThenQuantize ==
  call.fn = "floatTo16BitPCM"
    => LET x == call.arg
           v == call.res
       IN /\ v \in -NegScale..PosScale
          /\ ~x.nan
               => /\ x.num >= SampleDen => v = PosScale
                  /\ x.num <= -SampleDen => v = -NegScale
                  /\ (x.num < 0 /\ x.num > -SampleDen)
                       => (v = TruncMul(x.num, NegScale) /\ v <= 0)
                  /\ (x.num >= 0 /\ x.num < SampleDen)
                       => (v = TruncMul(x.num, PosScale) /\ v >= 0)

\* The largest sample, far above 1, was converted to 32767.
C25_Witness ==
  /\ call.fn = "floatTo16BitPCM"
  /\ call.arg = Sample(MaxSampleNum)
  /\ MaxSampleNum > SampleDen
  /\ call.res = PosScale

\* C26: for a sample s with |s| <= 1 the stored value v, decoded, is within
\* 1/32768 of s. The decoding is taken to be either of the two in use, v/32768
\* or the inverse of the encoder (v/32768 for v < 0, v/32767 for v >= 0): the
\* claim is that at least one of them meets the bound. With s = num/SampleDen
\* and num * k = q * SampleDen + r, for s >= 0 the first error is
\* (q - v + r/SampleDen)/32768 with k = 32768 and the second
\* r/(SampleDen * 32767) with k = 32767; for s < 0 both are r/(SampleDen *
\* 32768) with k = 32768.
C26_RoundTripWithinOneStep ==
  (call.fn = "floatTo16BitPCM" /\ ~call.arg.nan
     /\ call.arg.num \in -SampleDen..SampleDen)
    => LET num == call.arg.num
           v == call.res
           n8 == MulDivMod(IF num < 0 THEN -num ELSE num, NegScale, SampleDen)
           n7 == MulDivMod(IF num < 0 THEN -num ELSE num, PosScale, SampleDen)
       IN IF num < 0
          THEN v = -n8[1]
          ELSE \/ n8[1] = v
               \/ n8[1] = v + 1 /\ n8[2] = 0
               \/ /\ n7[1] = v
                  /\ SampleDen - n7[2] >= (SampleDen + NegScale - 1) \div NegScale

\* C27: transcribeAudio never returns the empty string.
C27_NeverEmpty ==
  (call.fn = "transcribeAudio" /\ ~call.res.threw) => call.res.text # ""

\* C31: when the connection of a start is acknowledged in Processing, the
\* recording begins: appState becomes Recording and recordingTime is 0.
C31_CounterStartsAtZero ==
  [][((appState = PROCESSING /\ lastOp'.op = "ConnectAck")
       => (appState' = RECORDING /\ recordingTime' = 0))]_vars

\* The live starts under the assumption the claim makes: a connection request
\* that was issued is eventually acknowledged or refused.
SpecLive ==
  Spec /\ \A k \in Ids : WF_vars(ConnectAck(k) \/ ConnectFail(k))

\* C32: once the recording has ended (Idle, Completed or Error) no service
\* handle is kept in liveServiceRef, and every session whose connection was
\* requested is eventually asked to close, unless the request was refused or
\* the session has closed already.
C32_NoSessionLeak ==
  /\ [](appState \in {IDLE, COMPLETED, ERROR} => liveServiceRef = 0)
  /\ \A k \in Ids :
       (promise[k] \in {"pending", "resolved"} /\ appState \in {IDLE, COMPLETED, ERROR})
         ~> (closeCount[k] > 0 \/ promise[k] = "rejected" \/ session[k] = "closed")

====
